---- MODULE Spec2Model ----
(***************************************************************************)
(* Plutus Terminal, research view (IntelligenceCommandCenter, four-column  *)
(* variant, src/frontend/src/App.js 1159-2058) and the App tab that mounts *)
(* it.  The model covers the refresh (fetchData), the collection-run       *)
(* poller (runCollection) and the render-time projections                  *)
(* (categorizeItems, getPriorityItems).                                    *)
(*                                                                         *)
(* Time is counted in whole minutes (MS_PER_MIN).  Every armed timer holds *)
(* the minutes since it was armed (age); the 180 s safety timeout and the  *)
(* 300 s refresh interval are whole numbers of minutes and fire exactly    *)
(* when their delay has passed.  The 2 s status poll is shorter than the   *)
(* clock unit, so a poll tick may fire any number of times between two     *)
(* clock ticks.  Requests settle after an arbitrary delay.                 *)
(***************************************************************************)
EXTENDS Integers, Sequences, FiniteSets, TLC

\* ---------------------------------------------------------------- bounds
MaxRuns == 2
MaxFetches == 3
MaxInflight == 1
MaxItems == 2
MaxRanked == 9
MaxClockSteps == 2
MaxHealth == 2
MaxBeats == 3
MaxBotReqs == 2
MaxOrders == 1

\* ------------------------------------------------------ program constants
MS_PER_MIN == 60000
TIMEOUT_MS == 180000
REFRESH_MS == 300000
RECENT_MINS == 60
MINS_PER_HOUR == 60
HOURS_PER_DAY == 24
HEAT_2 == 5000
HEAT_3 == 20000
HEAT_4 == 50000

TimeoutMin == TIMEOUT_MS \div MS_PER_MIN
RefreshMin == REFRESH_MS \div MS_PER_MIN

NULL == "null"
FetchErrorMessage == "Failed to fetch intelligence data"

categories == {"all", "politics", "sports", "crypto", "entertainment"}

\* The six requests of one refresh, and the four item requests in the order
\* in which fetchData appends their results.
Endpoints == {"signals", "stats", "markets", "reddit", "news", "social"}
ItemEndpoints == <<"markets", "reddit", "news", "social">>

\* The source_type query parameter of each item request.
QueryType(e) ==
  CASE e = "markets" -> "prediction_market"
    [] e = "reddit"  -> "reddit"
    [] e = "news"    -> "news"
    [] e = "social"  -> "social_media"

\* /collect/status bodies, by the two fields the poller reads:
\* running and (truthy) result.
StatusValues == {"running", "running_result", "stopped", "stopped_result"}
Running(s)   == s \in {"running", "running_result"}
HasResult(s) == s \in {"running_result", "stopped_result"}

VARIABLES
  activeTab,           \* App: "dashboard" | "research"
  signals, items, stats, selectedCategory,
  isCollecting, collectionProgress, loading, error,
  interval,            \* the refresh interval of the mounted view
  runs,                \* runCollection invocations (closures and their timers)
  nFetches, fetching,  \* fetchData invocations
  fetchErrorLog,       \* the request named by the last 'Fetch error:' line of the console
  categorizedItems, priorityItems,  \* what the last render derived from items
  cards,               \* the badges of the item cards, as last rendered
  now,                 \* the wall clock read by new Date(), in ms
  app,                 \* App: its React state
  session,             \* App: its requests in flight and its heartbeat interval
  order,               \* App: the order form and the order requests
  app0,                \* App of part_000: its bot status
  dash                 \* the category-filtered research views

vars == <<activeTab, signals, items, stats, selectedCategory,
          isCollecting, collectionProgress, loading, error, interval,
          runs, nFetches, fetching, fetchErrorLog, categorizedItems, priorityItems,
          cards, now, app, session, order, app0, dash>>

viewState == <<signals, items, stats, selectedCategory,
               isCollecting, collectionProgress, loading, error>>
derived == <<categorizedItems, priorityItems, cards>>
appState == <<app, session>>
variants == <<order, app0, dash>>
fetchState == <<nFetches, fetching, fetchErrorLog>>

\* App renders its tabs unless it is loading or shows the Connection Failed
\* card (error && !connected).
TabsShown == ~app.loading /\ ~(app.error # NULL /\ ~app.connected)
\* The research view is mounted while App renders its tabs and the research
\* tab is the active one.
Mounted == activeTab = "research" /\ TabsShown
\* A closure (a runCollection or fetchData invocation) is live while the view
\* instance that created it is mounted; the state setters of an unmounted
\* instance have no effect.
Live(c) == c.live

NoInterval == [armed |-> FALSE, age |-> 0]
NewInterval == [armed |-> TRUE, age |-> 0]
EmptyBuckets == [reddit |-> <<>>, news |-> <<>>, markets |-> <<>>, social |-> <<>>]

\* --------------------------------------------------------------- fetchData
\* The body of an ok /items response to request e of refresh f: one item,
\* tagged with the refresh that fetched it.
ResponseItems(e, f) == <<[id |-> f, source_type |-> QueryType(e)]>>

RECURSIVE PushFrom(_, _, _)
PushFrom(k, f, ok) ==
  IF k > Len(ItemEndpoints) THEN <<>>
  ELSE (IF ItemEndpoints[k] \in ok THEN ResponseItems(ItemEndpoints[k], f) ELSE <<>>)
       \o PushFrom(k + 1, f, ok)

\* allItems with the push of the news and social results left out.
allItems_Partial(f, ok) == PushFrom(1, f, ok \ {"news", "social"})

\* allItems as assembled by fetchData from the ok responses.
allItems(f, ok) == PushFrom(1, f, ok)

\* The bodies of ok /signals and /stats responses.
ResponseSignals == <<"signal">>
ResponseStats == "stats"

\* The sets of requests answered 2xx that a fulfilled Promise.all is tried with.
OkSets == {Endpoints, Endpoints \ {"news"}, {"stats", "reddit"}}
\* The requests a rejected Promise.all is tried with (the first to reject).
RejectInputs == {"signals", "news"}
\* The category buttons that are pressed.
CategoryInputs == {"all", "politics"}

\* fetchData invocations are numbered in the order they are started
\* (nFetches so far); fetching holds those of the mounted view that still
\* wait for their responses.  An invocation made from a closure of an
\* unmounted view issues its requests too, but no setter it calls then or
\* later has an effect, so it is counted and not kept.
TheView == [live |-> TRUE]

\* The synchronous head of fetchData called from closure c: setLoading(true),
\* setError(null), six requests issued.
fetchData(c) ==
  /\ nFetches < MaxFetches
  /\ nFetches' = nFetches + 1
  /\ UNCHANGED fetchErrorLog
  /\ IF Live(c)
       THEN fetching' = fetching \cup {nFetches + 1} /\ loading' = TRUE /\ error' = NULL
       ELSE UNCHANGED <<fetching, loading, error>>

\* Promise.all rejects as soon as request e rejects: catch (setError,
\* console.error), finally.
FetchReject(f, e) ==
  /\ f \in fetching
  /\ fetching' = fetching \ {f}
  /\ error' = FetchErrorMessage /\ loading' = FALSE
  /\ fetchErrorLog' = e
  /\ UNCHANGED <<activeTab, signals, items, stats, selectedCategory, isCollecting,
                 collectionProgress, interval, runs, nFetches, derived, now, variants, appState>>

\* Promise.all fulfils: all six responses arrived, those in ok with a 2xx
\* status.  The bodies of the ok responses are read one after the other:
\* setSignals, setStats, setItems(allItems), finally.
FetchFulfil(f, ok) ==
  /\ f \in fetching
  /\ fetching' = fetching \ {f}
  /\ signals' = IF "signals" \in ok THEN ResponseSignals ELSE signals
  /\ stats' = IF "stats" \in ok THEN ResponseStats ELSE stats
  /\ items' = allItems(f, ok)
  /\ loading' = FALSE
  /\ UNCHANGED <<activeTab, selectedCategory, isCollecting, collectionProgress,
                 error, interval, runs, nFetches, fetchErrorLog, derived, now, variants, appState>>

\* ------------------------------------------------------------ App: the tab
\* activeTab becomes 'research': the view is mounted with its initial state
\* and its effect runs (fetchData(); setInterval(fetchData, 300000)).
NavigateToResearch ==
  /\ activeTab = "dashboard"
  /\ activeTab' = "research"
  /\ fetchData(TheView)
  /\ interval' = NewInterval
  /\ UNCHANGED <<signals, items, stats, selectedCategory, isCollecting,
                 collectionProgress, runs, derived, now, variants, appState>>

\* activeTab leaves 'research': the view is unmounted, its state is dropped
\* and the effect's cleanup runs (clearInterval(interval)).
NavigateAway ==
  /\ Mounted
  /\ activeTab' = "dashboard"
  /\ interval' = NoInterval
  /\ signals' = <<>> /\ items' = <<>> /\ stats' = NULL
  /\ selectedCategory' = "all"
  /\ isCollecting' = FALSE /\ collectionProgress' = NULL
  /\ loading' = TRUE /\ error' = NULL
  /\ runs' = [r \in 1..Len(runs) |-> [runs[r] EXCEPT !.live = FALSE]]
  /\ fetching' = {}
  /\ UNCHANGED <<nFetches, fetchErrorLog>>
  /\ UNCHANGED <<derived, now, variants, appState>>

\* --------------------------------------------------------------- the view
\* What the view renders: the loading screen, the error card, or the feed.
ShowsFeed == Mounted /\ ~loading /\ error = NULL

\* The refresh interval fires.
RefreshTick ==
  /\ interval.armed /\ interval.age = RefreshMin
  /\ fetchData(TheView)
  /\ interval' = [interval EXCEPT !.age = 0]
  /\ UNCHANGED <<activeTab, signals, items, stats, selectedCategory,
                 isCollecting, collectionProgress, runs, derived, now, variants, appState>>

\* The Retry button of the error card.
Retry ==
  /\ Mounted /\ ~loading /\ error # NULL
  /\ fetchData(TheView)
  /\ UNCHANGED <<activeTab, signals, items, stats, selectedCategory,
                 isCollecting, collectionProgress, interval, runs, derived, now, variants, appState>>

\* A category button: fetchData gets a new identity, so the effect is cleaned
\* up and run again.
SelectCategory(c) ==
  /\ ShowsFeed
  /\ c # selectedCategory
  /\ selectedCategory' = c
  /\ fetchData(TheView)
  /\ interval' = NewInterval
  /\ UNCHANGED <<activeTab, signals, items, stats,
                 isCollecting, collectionProgress, runs, derived, now, variants, appState>>

\* ----------------------------------------------------------- runCollection
NewRun == [live |-> TRUE, post |-> "inflight", poll |-> FALSE,
              tmo |-> "none", age |-> 0, inflight |-> 0]

\* Run Scan / Initialize Scan: both are offered only while ~isCollecting.
\* setIsCollecting(true), setCollectionProgress(null), POST /collect issued.
runCollection ==
  /\ ShowsFeed
  /\ ~isCollecting
  /\ Len(runs) < MaxRuns
  /\ isCollecting' = TRUE
  /\ collectionProgress' = NULL
  /\ runs' = Append(runs, NewRun)
  /\ UNCHANGED <<activeTab, signals, items, stats, selectedCategory,
                 loading, error, interval, fetchState, derived, now, variants, appState>>

\* POST /collect answered 2xx: the poll interval and the safety timeout are
\* armed.
PostOk(r) ==
  /\ r \in 1..Len(runs)
  /\ runs[r].post = "inflight"
  /\ runs' = [runs EXCEPT ![r].post = "ok", ![r].poll = TRUE,
                          ![r].tmo = "armed", ![r].age = 0]
  /\ UNCHANGED <<activeTab, viewState, interval, fetchState, derived, now, variants, appState>>

\* POST /collect answered non-2xx: `if (res.ok)` has no else branch.
PostNotOk(r) ==
  /\ r \in 1..Len(runs)
  /\ runs[r].post = "inflight"
  /\ runs' = [runs EXCEPT ![r].post = "notok"]
  /\ UNCHANGED <<activeTab, viewState, interval, fetchState, derived, now, variants, appState>>

\* POST /collect rejected: the catch block.
PostReject(r) ==
  /\ r \in 1..Len(runs)
  /\ runs[r].post = "inflight"
  /\ runs' = [runs EXCEPT ![r].post = "rejected"]
  /\ IF Live(runs[r])
       THEN isCollecting' = FALSE /\ collectionProgress' = NULL
       ELSE UNCHANGED <<isCollecting, collectionProgress>>
  /\ UNCHANGED <<activeTab, signals, items, stats, selectedCategory,
                 loading, error, interval, fetchState, derived, now, variants, appState>>

\* A tick of pollInterval: GET /collect/status issued.
PollTick(r) ==
  /\ r \in 1..Len(runs)
  /\ runs[r].poll
  /\ runs[r].inflight < MaxInflight
  /\ runs' = [runs EXCEPT ![r].inflight = @ + 1]
  /\ UNCHANGED <<activeTab, viewState, interval, fetchState, derived, now, variants, appState>>

\* The completion test without the check of status.result.
IsComplete_IgnoresResult(status) == ~Running(status)

\* The completion test of the poll tick.
IsComplete(status) == ~Running(status) /\ HasResult(status)

\* StatusFail treating a failed status request as the end of the run.
StatusFail_Stops(r) ==
  /\ r \in 1..Len(runs)
  /\ runs[r].inflight > 0
  /\ runs' = [runs EXCEPT ![r].inflight = @ - 1, ![r].poll = FALSE]
  /\ IF Live(runs[r])
       THEN isCollecting' = FALSE /\ collectionProgress' = NULL
       ELSE UNCHANGED <<isCollecting, collectionProgress>>
  /\ UNCHANGED <<activeTab, signals, items, stats, selectedCategory,
                 loading, error, interval, fetchState, derived, now, variants, appState>>

\* GET /collect/status rejected (catch: logged) or answered non-2xx.
StatusFail(r) ==
  /\ r \in 1..Len(runs)
  /\ runs[r].inflight > 0
  /\ runs' = [runs EXCEPT ![r].inflight = @ - 1]
  /\ UNCHANGED <<activeTab, viewState, interval, fetchState, derived, now, variants, appState>>

\* StatusOk without the fetchData() call on completion.
StatusOk_NoRefresh(r, status) ==
  /\ r \in 1..Len(runs)
  /\ runs[r].inflight > 0
  /\ IF IsComplete(status)
       THEN /\ runs' = [runs EXCEPT ![r].inflight = @ - 1, ![r].poll = FALSE]
            /\ IF Live(runs[r])
                 THEN isCollecting' = FALSE /\ collectionProgress' = NULL
                 ELSE UNCHANGED <<isCollecting, collectionProgress>>
       ELSE /\ runs' = [runs EXCEPT ![r].inflight = @ - 1]
            /\ IF Live(runs[r])
                 THEN collectionProgress' = status
                 ELSE UNCHANGED collectionProgress
            /\ UNCHANGED isCollecting
  /\ UNCHANGED <<activeTab, signals, items, stats, selectedCategory,
                 loading, error, interval, fetchState, derived, now, variants, appState>>

\* GET /collect/status answered 2xx with body `status`.
StatusOk(r, status) ==
  /\ r \in 1..Len(runs)
  /\ runs[r].inflight > 0
  /\ IF IsComplete(status)
       THEN /\ runs' = [runs EXCEPT ![r].inflight = @ - 1, ![r].poll = FALSE]
            /\ fetchData(runs[r])
            /\ IF Live(runs[r])
                 THEN isCollecting' = FALSE /\ collectionProgress' = NULL
                 ELSE UNCHANGED <<isCollecting, collectionProgress>>
       ELSE /\ runs' = [runs EXCEPT ![r].inflight = @ - 1]
            /\ IF Live(runs[r])
                 THEN collectionProgress' = status
                 ELSE UNCHANGED collectionProgress
            /\ UNCHANGED <<isCollecting, loading, error, fetchState>>
  /\ UNCHANGED <<activeTab, signals, items, stats, selectedCategory,
                 interval, derived, now, variants, appState>>

\* SafetyTimeout without clearInterval(pollInterval).
SafetyTimeout_KeepsPolling(r) ==
  /\ r \in 1..Len(runs)
  /\ runs[r].tmo = "armed"
  /\ runs[r].age = TimeoutMin
  /\ runs' = [runs EXCEPT ![r].tmo = "fired"]
  /\ fetchData(runs[r])
  /\ IF Live(runs[r])
       THEN isCollecting' = FALSE /\ collectionProgress' = NULL
       ELSE UNCHANGED <<isCollecting, collectionProgress>>
  /\ UNCHANGED <<activeTab, signals, items, stats, selectedCategory,
                 interval, derived, now, variants, appState>>

\* The safety timeout fires.
SafetyTimeout(r) ==
  /\ r \in 1..Len(runs)
  /\ runs[r].tmo = "armed"
  /\ runs[r].age = TimeoutMin
  /\ runs' = [runs EXCEPT ![r].tmo = "fired", ![r].poll = FALSE]
  /\ fetchData(runs[r])
  /\ IF Live(runs[r])
       THEN isCollecting' = FALSE /\ collectionProgress' = NULL
       ELSE UNCHANGED <<isCollecting, collectionProgress>>
  /\ UNCHANGED <<activeTab, signals, items, stats, selectedCategory,
                 interval, derived, now, variants, appState>>

\* ------------------------------------------------------------------- time
\* A minute passes; a timer that is due fires before the clock moves on.
TimerArmed(r) == runs[r].tmo = "armed"

Tick ==
  /\ interval.armed \/ \E r \in 1..Len(runs) : TimerArmed(r)
  /\ interval.armed => interval.age < RefreshMin
  /\ \A r \in 1..Len(runs) : TimerArmed(r) => runs[r].age < TimeoutMin
  /\ interval' = IF interval.armed THEN [interval EXCEPT !.age = @ + 1] ELSE interval
  /\ runs' = [r \in 1..Len(runs) |->
               IF TimerArmed(r) THEN [runs[r] EXCEPT !.age = @ + 1] ELSE runs[r]]
  /\ UNCHANGED <<activeTab, viewState, fetchState, derived, now, variants, appState>>

\* ----------------------------------------------------------- sourceTypes
\* An item is a record that holds the fields the response gave it: a missing
\* field is missing from its domain.  A source_name is a sequence of tokens
\* (its prefix "r/" or "@", the outlet or platform names in it, other text),
\* so that startsWith and includes look at the tokens.
Has(item, field) == field \in DOMAIN item

startsWith(name, tok) == Len(name) > 0 /\ name[1] = tok
includes(name, tok) == \E i \in 1..Len(name) : name[i] = tok

NewsNames == {"BBC", "NYT", "Reuters", "Politico", "ESPN", "CoinDesk", "Variety",
              "Google News", "The Hill", "CoinTelegraph", "Decrypt",
              "Hollywood Reporter", "Deadline"}
MarketNames == {"Polymarket", "Metaculus", "Manifold", "Kalshi"}

\* item.source_type === t
TypeIs(item, t) == Has(item, "source_type") /\ item.source_type = t
\* item.source_name?.startsWith(tok), item.source_name?.includes(tok)
NameStartsWith(item, tok) == Has(item, "source_name") /\ startsWith(item.source_name, tok)
NameIncludes(item, tok) == Has(item, "source_name") /\ includes(item.source_name, tok)

matchReddit(item) == TypeIs(item, "reddit") \/ NameStartsWith(item, "r/")
matchNews(item) == TypeIs(item, "news") \/ \E n \in NewsNames : NameIncludes(item, n)
matchMarkets(item) ==
  TypeIs(item, "prediction_market") \/ \E n \in MarketNames : NameIncludes(item, n)
matchSocial(item) ==
  \/ TypeIs(item, "social_media")
  \/ NameStartsWith(item, "@")
  \/ NameIncludes(item, "Fear & Greed")

\* --------------------------------------------------------- categorizeItems
BucketNames == {"reddit", "news", "markets", "social"}

\* Push without the default branch: an item no matcher accepts is dropped.
Push_NoDefault(categorized, item) ==
  IF matchMarkets(item) THEN [categorized EXCEPT !.markets = Append(@, item)]
  ELSE IF matchSocial(item) THEN [categorized EXCEPT !.social = Append(@, item)]
  ELSE IF matchNews(item) THEN [categorized EXCEPT !.news = Append(@, item)]
  ELSE IF matchReddit(item) THEN [categorized EXCEPT !.reddit = Append(@, item)]
  ELSE categorized

\* Push with the reddit test moved to the head of the chain.
Push_RedditFirst(categorized, item) ==
  IF matchReddit(item) THEN [categorized EXCEPT !.reddit = Append(@, item)]
  ELSE IF matchMarkets(item) THEN [categorized EXCEPT !.markets = Append(@, item)]
  ELSE IF matchSocial(item) THEN [categorized EXCEPT !.social = Append(@, item)]
  ELSE IF matchNews(item) THEN [categorized EXCEPT !.news = Append(@, item)]
  ELSE [categorized EXCEPT !.reddit = Append(@, item)]

\* Push with news as the default bucket.
Push_DefaultNews(categorized, item) ==
  IF matchMarkets(item) THEN [categorized EXCEPT !.markets = Append(@, item)]
  ELSE IF matchSocial(item) THEN [categorized EXCEPT !.social = Append(@, item)]
  ELSE IF matchNews(item) THEN [categorized EXCEPT !.news = Append(@, item)]
  ELSE IF matchReddit(item) THEN [categorized EXCEPT !.reddit = Append(@, item)]
  ELSE [categorized EXCEPT !.news = Append(@, item)]

\* The body of the forEach: the if/else chain that pushes item to one bucket.
Push(categorized, item) ==
  IF matchMarkets(item) THEN [categorized EXCEPT !.markets = Append(@, item)]
  ELSE IF matchSocial(item) THEN [categorized EXCEPT !.social = Append(@, item)]
  ELSE IF matchNews(item) THEN [categorized EXCEPT !.news = Append(@, item)]
  ELSE IF matchReddit(item) THEN [categorized EXCEPT !.reddit = Append(@, item)]
  ELSE [categorized EXCEPT !.reddit = Append(@, item)]

RECURSIVE ForEachPush(_, _, _)
ForEachPush(list, k, categorized) ==
  IF k > Len(list) THEN categorized
  ELSE ForEachPush(list, k + 1, Push(categorized, list[k]))

categorizeItems(list) == ForEachPush(list, 1, EmptyBuckets)

\* -------------------------------------------------------- getPriorityItems
PRIORITY_N == 8

\* item.engagement_score || 0
Score(item) == IF Has(item, "engagement_score") THEN item.engagement_score ELSE 0

\* InsertSorted that puts x before the elements of equal score.
RECURSIVE InsertSorted_Unstable(_, _)
InsertSorted_Unstable(sorted, x) ==
  IF sorted = <<>> THEN <<x>>
  ELSE IF Score(sorted[1]) > Score(x)
         THEN <<sorted[1]>> \o InsertSorted_Unstable(Tail(sorted), x)
         ELSE <<x>> \o sorted

\* Array.prototype.sort with the comparator Score(b) - Score(a) is a stable
\* sort by descending score: x goes behind every element that is not smaller.
RECURSIVE InsertSorted(_, _)
InsertSorted(sorted, x) ==
  IF sorted = <<>> THEN <<x>>
  ELSE IF Score(sorted[1]) >= Score(x)
         THEN <<sorted[1]>> \o InsertSorted(Tail(sorted), x)
         ELSE <<x>> \o sorted

RECURSIVE SortFrom(_, _, _)
SortFrom(list, k, sorted) ==
  IF k > Len(list) THEN sorted
  ELSE SortFrom(list, k + 1, InsertSorted(sorted, list[k]))

slice(list, n) == SubSeq(list, 1, IF Len(list) < n THEN Len(list) ELSE n)

\* getPriorityItems without the sort.
getPriorityItems_NoSort(list) == SubSeq(list, 1, IF Len(list) < PRIORITY_N THEN Len(list) ELSE PRIORITY_N)

getPriorityItems(list) == slice(SortFrom(list, 1, <<>>), PRIORITY_N)

\* ----------------------------------------------------------- App's state
\* The clock when the page is opened (ms).
Now0 == 200000000

\* useState defaults of App.
DefaultAllocations == [momentum |-> 25, mean_reversion |-> 50, rsi |-> 15, vwap |-> 10]
DefaultBotStatus == [running |-> FALSE, strategy |-> "momentum"]
NewApp == [connected |-> FALSE, loading |-> TRUE, error |-> NULL,
           botStatus |-> DefaultBotStatus, strategyAllocations |-> DefaultAllocations]
\* The page is opened: the initial-load effect has called checkHealth.
NewSession == [health |-> 1, heartbeat |-> FALSE, intervals |-> 0, beats |-> 0,
               botPost |-> "none", botStatusReqs |-> 0]

\* App after /health reported broker_connected: the heartbeat is armed and
\* has fetched once.
ConnectedApp == [NewApp EXCEPT !.connected = TRUE, !.loading = FALSE]
ConnectedSession ==
  [NewSession EXCEPT !.health = 0, !.heartbeat = TRUE, !.intervals = 1, !.beats = 1]

\* The order form as App creates it (App.js and part_000 alike); no order
\* request has been sent.
NewOrderForm == [symbol |-> "AAPL", qty |-> "1", side |-> "buy",
                 orderType |-> "market", limitPrice |-> ""]
NewOrder == [variant |-> "App.js", form |-> NewOrderForm, sent |-> <<>>,
             pending |-> 0, refetches |-> 0, alert |-> "none"]
\* App of part_000 once connected: botStatus as created, nothing reported by
\* /api/bot/status yet, no request in flight.
NewApp0 == [botStatus |-> DefaultBotStatus, reported |-> <<>>,
            statusReqs |-> 0, tradesReqs |-> 0, configPost |-> "none",
            alert |-> "none"]
\* The category-filtered research view (ResearchDashboard of part_000,
\* IntelligenceCommandCenter of App.js 4700-5500) before it is mounted.
DashVariants == {"part_000", "App.js"}
NewDash == [variant |-> "part_000", mounted |-> FALSE, selectedCategory |-> "all",
            items |-> <<>>, isCollecting |-> FALSE, loading |-> TRUE, error |-> NULL,
            n |-> 0, fetching |-> {}, intervals |-> {},
            nRuns |-> 0, posts |-> <<>>, posted |-> "none",
            refetchTimers |-> <<>>, resetTimers |-> 0]

\* ------------------------------------------------- App: health, heartbeat
BrokerUnavailable == "Broker connection unavailable"
BackendUnreachable == "Failed to connect to backend"

\* The Connection Failed card with its Retry Connection button.
ConnectionCardShown == ~app.loading /\ app.error # NULL /\ ~app.connected

\* Retry Connection: checkHealth issues GET /health.
checkHealth ==
  /\ ConnectionCardShown
  /\ session.health < MaxHealth
  /\ session' = [session EXCEPT !.health = @ + 1]
  /\ UNCHANGED <<activeTab, viewState, interval, runs, fetchState, derived, now, variants, app>>

\* fetchAllData: the account, positions, orders, trades, history, bot status
\* and market requests are issued.
CanFetchAll == session.beats < MaxBeats /\ session.botStatusReqs < MaxBotReqs
fetchAllData(s) == [s EXCEPT !.beats = @ + 1, !.botStatusReqs = @ + 1]

\* What becomes of the research view when App renders again.
ViewUnmounted ==
  /\ interval' = NoInterval
  /\ signals' = <<>> /\ items' = <<>> /\ stats' = NULL
  /\ selectedCategory' = "all"
  /\ isCollecting' = FALSE /\ collectionProgress' = NULL
  /\ loading' = TRUE /\ error' = NULL
  /\ runs' = [r \in 1..Len(runs) |-> [runs[r] EXCEPT !.live = FALSE]]
  /\ fetching' = {}
  /\ UNCHANGED <<nFetches, fetchErrorLog>>
ViewMounted ==
  /\ fetchData(TheView)
  /\ interval' = NewInterval
  /\ UNCHANGED <<signals, items, stats, selectedCategory, isCollecting,
                 collectionProgress, runs>>
ViewKept == UNCHANGED <<viewState, interval, runs, fetchState>>

\* HealthOk with the heartbeat armed whatever /health reports.
HealthOk_AlwaysPolls(broker_connected) ==
  /\ session.health > 0
  /\ CanFetchAll
  /\ app' = [app EXCEPT !.connected = broker_connected, !.loading = FALSE,
                        !.error = IF broker_connected THEN @ ELSE BrokerUnavailable]
  /\ session' = [fetchAllData(session) EXCEPT !.health = @ - 1, !.heartbeat = TRUE,
                                              !.intervals = 1]
  /\ ViewKept
  /\ UNCHANGED <<activeTab, derived, now, variants>>

\* GET /health answered with a body: setConnected(data.broker_connected),
\* setLoading(false), setError if the broker is not connected.  The data
\* polling effect follows connected: its cleanup clears the heartbeat
\* interval, its body calls fetchAllData and arms the interval.
\* The number of armed heartbeat intervals after the effect has run over
\* [connected]: unchanged when connected is, else the cleanup of the run
\* that armed one clears it and the body arms one when connected is true.
pollingEffect(n, was, connected) ==
  IF was = connected THEN n
  ELSE (IF was THEN n - 1 ELSE n) + (IF connected THEN 1 ELSE 0)

HealthOk(broker_connected) ==
  LET starts == broker_connected /\ ~app.connected
      after == [app EXCEPT !.connected = broker_connected, !.loading = FALSE,
                           !.error = IF broker_connected THEN @ ELSE BrokerUnavailable]
      shown == ~after.loading /\ ~(after.error # NULL /\ ~after.connected)
  IN  /\ session.health > 0
      /\ starts => CanFetchAll
      /\ app' = after
      /\ session' = [(IF starts THEN fetchAllData(session) ELSE session)
                       EXCEPT !.health = @ - 1, !.heartbeat = broker_connected,
                              !.intervals = pollingEffect(@, app.connected,
                                                          broker_connected)]
      /\ IF Mounted /\ ~shown THEN ViewUnmounted
         ELSE IF activeTab = "research" /\ ~Mounted /\ shown THEN ViewMounted
         ELSE ViewKept
      /\ UNCHANGED <<activeTab, derived, now, variants>>

\* GET /health rejected, or its body is no JSON: the catch block.
HealthFail ==
  /\ session.health > 0
  /\ app' = [app EXCEPT !.error = BackendUnreachable, !.loading = FALSE]
  /\ session' = [session EXCEPT !.health = @ - 1]
  /\ UNCHANGED <<activeTab, viewState, interval, runs, fetchState, derived, now, variants>>

\* A tick of the heartbeat interval: fetchAllData.
HeartbeatTick ==
  /\ session.heartbeat
  /\ CanFetchAll
  /\ session' = fetchAllData(session)
  /\ UNCHANGED <<activeTab, viewState, interval, runs, fetchState, derived, now, variants, app>>

\* GET /bot/status answered 2xx: running is replaced (strategy is kept when
\* the body names none).
BotStatusOk(running) ==
  /\ session.botStatusReqs > 0
  /\ session' = [session EXCEPT !.botStatusReqs = @ - 1]
  /\ app' = [app EXCEPT !.botStatus.running = running]
  /\ UNCHANGED <<activeTab, viewState, interval, runs, fetchState, derived, now, variants>>

\* GET /bot/status rejected or answered non-2xx.
BotStatusFail ==
  /\ session.botStatusReqs > 0
  /\ session' = [session EXCEPT !.botStatusReqs = @ - 1]
  /\ UNCHANGED <<activeTab, viewState, interval, runs, fetchState, derived, now, variants, app>>

\* ------------------------------------------------ App: strategy allocation
StrategyIds == {"momentum", "mean_reversion", "rsi", "vwap"}
\* Object.values(strategyAllocations).reduce((a, b) => a + b, 0)
AllocationSum(a) == a.momentum + a.mean_reversion + a.rsi + a.vwap
ALLOCATION_LIMIT == 100

\* The strategies panel of the trading tab.
StrategyPanelShown == TabsShown /\ activeTab = "trading"
\* disabled= of the sliders and of the two action buttons.
SlidersDisabled == app.botStatus.running
ActionsDisabled == AllocationSum(app.strategyAllocations) > ALLOCATION_LIMIT

\* The sliders that are moved, and the values they are moved to.
SliderInputs == {"momentum", "rsi"}
ValueInputs == {0, 30}

\* The trading tab is opened from, and left for, the dashboard.
OpenTrading ==
  /\ TabsShown /\ activeTab = "dashboard"
  /\ activeTab' = "trading"
  /\ UNCHANGED <<viewState, interval, runs, fetchState, derived, now, variants, appState>>
CloseTrading ==
  /\ TabsShown /\ activeTab = "trading"
  /\ activeTab' = "dashboard"
  /\ UNCHANGED <<viewState, interval, runs, fetchState, derived, now, variants, appState>>

\* MoveSlider with sliders that are never disabled.
MoveSlider_NeverDisabled(id, value) ==
  /\ StrategyPanelShown
  /\ app.strategyAllocations[id] # value
  /\ app' = [app EXCEPT !.strategyAllocations[id] = value]
  /\ UNCHANGED <<activeTab, viewState, interval, runs, fetchState, derived, now, variants, session>>

\* A slider is moved: onChange(parseInt(e.target.value)).
MoveSlider(id, value) ==
  /\ StrategyPanelShown
  /\ ~SlidersDisabled
  /\ app.strategyAllocations[id] # value
  /\ app' = [app EXCEPT !.strategyAllocations[id] = value]
  /\ UNCHANGED <<activeTab, viewState, interval, runs, fetchState, derived, now, variants, session>>

\* The Start Bot / Stop Bot button: POST /bot/start or /bot/stop.
handleStartBot ==
  /\ StrategyPanelShown /\ ~ActionsDisabled
  /\ ~app.botStatus.running
  /\ session.botPost = "none"
  /\ session' = [session EXCEPT !.botPost = "start"]
  /\ UNCHANGED <<activeTab, viewState, interval, runs, fetchState, derived, now, variants, app>>
handleStopBot ==
  /\ StrategyPanelShown /\ ~ActionsDisabled
  /\ app.botStatus.running
  /\ session.botPost = "none"
  /\ session' = [session EXCEPT !.botPost = "stop"]
  /\ UNCHANGED <<activeTab, viewState, interval, runs, fetchState, derived, now, variants, app>>

\* The POST is answered 2xx: fetchBotStatus().
BotPostOk ==
  /\ session.botPost # "none"
  /\ session.botStatusReqs < MaxBotReqs
  /\ session' = [session EXCEPT !.botPost = "none", !.botStatusReqs = @ + 1]
  /\ UNCHANGED <<activeTab, viewState, interval, runs, fetchState, derived, now, variants, app>>
\* The POST is answered non-2xx or rejected: alert.
BotPostFail ==
  /\ session.botPost # "none"
  /\ session' = [session EXCEPT !.botPost = "none"]
  /\ UNCHANGED <<activeTab, viewState, interval, runs, fetchState, derived, now, variants, app>>

\* ------------------------------------------------------ App: the order form
OrderVariants == {"App.js", "part_000"}
\* What is typed or chosen in the fields of the form.
SymbolInputs == {"", "aapl", "AAPL"}
QtyInputs == {"", "1"}
SideInputs == {"buy", "sell"}
OrderTypeInputs == {"market", "limit"}
LimitPriceInputs == {"", "150.00"}
FieldInputs(field) ==
  CASE field = "symbol" -> SymbolInputs
    [] field = "qty" -> QtyInputs
    [] field = "side" -> SideInputs
    [] field = "orderType" -> OrderTypeInputs
    [] field = "limitPrice" -> LimitPriceInputs

\* String.prototype.toUpperCase and parseFloat on the strings of the form;
\* parseFloat of a string that starts with no number is NaN.
toUpperCase(str) == IF str = "aapl" THEN "AAPL" ELSE str
parseFloat(str) ==
  CASE str = "1" -> <<1>>
    [] str = "150.00" -> <<150>>
    [] OTHER -> <<>>

\* A field of the form is edited.  The symbol field of App.js stores the
\* upper-cased text, part_000's handleOrderFormChange stores the text.
SetOrderField(field, value) ==
  LET stored == IF field = "symbol" /\ order.variant = "App.js"
                  THEN toUpperCase(value) ELSE value
  IN  /\ field \in DOMAIN NewOrderForm
      /\ field = "side" => order.variant = "part_000"
      /\ value \in FieldInputs(field)
      /\ order.form[field] # stored
      /\ order' = [order EXCEPT !.form[field] = stored]
      /\ UNCHANGED <<activeTab, viewState, interval, runs, fetchState, derived, now,
                     appState, app0, dash>>

\* The request handlePlaceOrder sends for the form it sees: the endpoint and
\* the JSON body (JSON.stringify writes a NaN limit_price as null).
OrderRequest(form) ==
  [endpoint |-> IF form.orderType = "market" THEN "/orders/market" ELSE "/orders/limit",
   symbol |-> toUpperCase(form.symbol),
   qty |-> parseFloat(form.qty),
   side |-> form.side,
   hasLimitPrice |-> form.orderType = "limit",
   limit_price |-> IF form.orderType = "limit" THEN parseFloat(form.limitPrice) ELSE <<>>]

\* The Buy and Sell buttons of App.js: setOrderForm(p => ({...p, side})),
\* then handlePlaceOrder(), which reads the orderForm of the render the
\* button belongs to.
handlePlaceOrder(side) ==
  LET form == order.form
  IN  /\ order.variant = "App.js"
      /\ IF form.symbol = "" \/ form.qty = ""
           THEN order' = [order EXCEPT !.form.side = side]
           ELSE /\ Len(order.sent) < MaxOrders
                /\ order' = [order EXCEPT !.form.side = side,
                                          !.sent = Append(@, OrderRequest(form)),
                                          !.pending = @ + 1]
      /\ UNCHANGED <<activeTab, viewState, interval, runs, fetchState, derived, now,
                     appState, app0, dash>>

\* The one order button of part_000: handlePlaceOrder.
part_000_handlePlaceOrder ==
  LET form == order.form
  IN  /\ order.variant = "part_000"
      /\ IF form.symbol = "" \/ form.qty = ""
           THEN order' = [order EXCEPT !.alert = "Please enter symbol and quantity"]
           ELSE IF form.orderType = "limit" /\ form.limitPrice = ""
           THEN order' = [order EXCEPT !.alert = "Please enter limit price"]
           ELSE /\ Len(order.sent) < MaxOrders
                /\ order' = [order EXCEPT !.sent = Append(@, OrderRequest(form)),
                                          !.pending = @ + 1]
      /\ UNCHANGED <<activeTab, viewState, interval, runs, fetchState, derived, now,
                     appState, app0, dash>>

\* The order request is answered 2xx: fetchOrders(), fetchPositions(); part_000
\* also resets the form.
OrderPostOk ==
  /\ order.pending > 0
  /\ order' = [order EXCEPT
                 !.pending = @ - 1,
                 !.refetches = @ + 1,
                 !.alert = IF order.variant = "part_000"
                             THEN "Order placed successfully!" ELSE @,
                 !.form = IF order.variant = "part_000"
                            THEN [NewOrderForm EXCEPT !.symbol = ""] ELSE @]
  /\ UNCHANGED <<activeTab, viewState, interval, runs, fetchState, derived, now,
                 appState, app0, dash>>

\* The order request is answered non-2xx or rejected.
OrderPostFail ==
  /\ order.pending > 0
  /\ order' = [order EXCEPT
                 !.pending = @ - 1,
                 !.alert = IF order.variant = "part_000"
                             THEN "Failed to place order" ELSE @]
  /\ UNCHANGED <<activeTab, viewState, interval, runs, fetchState, derived, now,
                 appState, app0, dash>>

\* ------------------------------------------------ App of part_000: the bot
\* The strategy of a /api/bot/status body ("" when the body names none) and
\* the strategies chosen in the selector.
ReportedStrategies == {"", "momentum", "mean_reversion"}
StrategyInputs == {"momentum", "mean_reversion"}

\* fetchAllData of part_000 (at connection and on every heartbeat tick):
\* among its requests are GET /api/trades and GET /api/bot/status.
part_000_fetchAllData ==
  /\ app0.statusReqs < MaxBotReqs /\ app0.tradesReqs < MaxBotReqs
  /\ app0' = [app0 EXCEPT !.statusReqs = @ + 1, !.tradesReqs = @ + 1]
  /\ UNCHANGED <<activeTab, viewState, interval, runs, fetchState, derived, now,
                 appState, order, dash>>

\* fetchBotStatus answered 2xx:
\* setBotStatus(prev => ({...prev, running, strategy: data.strategy || prev.strategy})).
part_000_fetchBotStatus(running, strategy) ==
  LET shown == [running |-> running,
                strategy |-> IF strategy = "" THEN app0.botStatus.strategy ELSE strategy]
  IN  /\ app0.statusReqs > 0
      /\ app0' = [app0 EXCEPT !.statusReqs = @ - 1,
                              !.botStatus = shown,
                              !.reported = <<shown>>]
      /\ UNCHANGED <<activeTab, viewState, interval, runs, fetchState, derived, now,
                     appState, order, dash>>

\* calculateBotStats: setBotStatus({running: false, strategy: 'momentum',
\* daily_pnl, trades_today, win_rate}).
calculateBotStats == [running |-> FALSE, strategy |-> "momentum"]

\* fetchTrades answered 2xx: setTrades(data); calculateBotStats(data).
part_000_fetchTrades ==
  /\ app0.tradesReqs > 0
  /\ app0' = [app0 EXCEPT !.tradesReqs = @ - 1, !.botStatus = calculateBotStats]
  /\ UNCHANGED <<activeTab, viewState, interval, runs, fetchState, derived, now,
                 appState, order, dash>>

\* A status or trades request is answered non-2xx or rejected: nothing is set.
part_000_FetchFail(req) ==
  /\ req \in {"statusReqs", "tradesReqs"}
  /\ app0[req] > 0
  /\ app0' = [app0 EXCEPT ![req] = @ - 1]
  /\ UNCHANGED <<activeTab, viewState, interval, runs, fetchState, derived, now,
                 appState, order, dash>>

\* handleChangeStrategy: refused with an alert while botStatus.running,
\* else POST /api/bot/config.
part_000_handleChangeStrategy(newStrategy) ==
  /\ app0.configPost = "none"
  /\ IF app0.botStatus.running
       THEN app0' = [app0 EXCEPT !.alert = "Please stop the bot before changing strategy"]
       ELSE app0' = [app0 EXCEPT !.configPost = newStrategy]
  /\ UNCHANGED <<activeTab, viewState, interval, runs, fetchState, derived, now,
                 appState, order, dash>>

\* POST /api/bot/config answered 2xx: setBotStatus(prev => ({...prev, strategy})).
part_000_ConfigOk ==
  /\ app0.configPost # "none"
  /\ app0' = [app0 EXCEPT !.configPost = "none",
                          !.botStatus.strategy = app0.configPost,
                          !.alert = "Strategy changed"]
  /\ UNCHANGED <<activeTab, viewState, interval, runs, fetchState, derived, now,
                 appState, order, dash>>

\* POST /api/bot/config answered non-2xx or rejected.
part_000_ConfigFail ==
  /\ app0.configPost # "none"
  /\ app0' = [app0 EXCEPT !.configPost = "none", !.alert = "Failed to change strategy"]
  /\ UNCHANGED <<activeTab, viewState, interval, runs, fetchState, derived, now,
                 appState, order, dash>>

\* ------------------------------------- the category-filtered research view
\* fetchData is a useCallback over [selectedCategory]: every interval, timer
\* and runCollection closure holds the fetchData of the render that created
\* it, and so the category selected then.  Timers are not timed here: an
\* armed timer may fire at any moment.
RemoveAt(seq, i) == SubSeq(seq, 1, i - 1) \o SubSeq(seq, i + 1, Len(seq))

\* The synchronous head of fetchData for category cat: setLoading(true),
\* setError(null), GET /signals and GET /stats issued.
dash_fetchData(d, cat) ==
  [d EXCEPT !.n = @ + 1, !.loading = TRUE, !.error = NULL,
            !.fetching = @ \cup {[id |-> d.n + 1, category |-> cat, stage |-> "head"]}]

\* The view as mounted: the effect has called fetchData and armed the
\* refresh interval.
dash_mount(d, variant) ==
  [dash_fetchData([NewDash EXCEPT !.variant = variant, !.n = d.n, !.nRuns = d.nRuns],
                  "all")
     EXCEPT !.mounted = TRUE, !.intervals = {"all"}]
MountedDash(variant) == dash_mount(NewDash, variant)

\* The research tab is opened in a connected App.
dash_Mount(variant) ==
  /\ ~dash.mounted /\ TabsShown
  /\ dash.n < MaxFetches
  /\ dash' = dash_mount(dash, variant)
  /\ UNCHANGED <<activeTab, viewState, interval, runs, fetchState, derived, now,
                 appState, order, app0>>

\* The view leaves the page (another tab, or App renders without its tabs):
\* the effect's cleanup clears the refresh interval; the state, and with it
\* what requests in flight would set, is gone.
dash_Unmount ==
  /\ dash.mounted
  /\ dash' = [NewDash EXCEPT !.variant = dash.variant, !.n = dash.n,
                             !.nRuns = dash.nRuns]
  /\ UNCHANGED <<activeTab, viewState, interval, runs, fetchState, derived, now,
                 appState, order, app0>>

\* part_000 renders the header and the category buttons whatever the state;
\* App.js returns its loading screen or its error screen before them.
dash_ControlsShown ==
  dash.variant = "part_000" \/ (~dash.loading /\ dash.error = NULL)

\* A category button.  Without the effect's cleanup, the old interval stays.
dash_SelectCategory_NoCleanup(cat) ==
  /\ dash.mounted /\ dash.n < MaxFetches
  /\ dash_ControlsShown
  /\ cat # dash.selectedCategory
  /\ dash' = [dash_fetchData(dash, cat) EXCEPT !.selectedCategory = cat,
                                               !.intervals = @ \cup {cat}]
  /\ UNCHANGED <<activeTab, viewState, interval, runs, fetchState, derived, now,
                 appState, order, app0>>

\* A category button: setSelectedCategory(cat.id).  fetchData gets a new
\* identity, the effect's cleanup clears the interval of the old one, the
\* effect calls the new fetchData and arms an interval for it.
dash_SelectCategory(cat) ==
  /\ dash.mounted /\ dash.n < MaxFetches
  /\ dash_ControlsShown
  /\ cat # dash.selectedCategory
  /\ dash' = [dash_fetchData(dash, cat)
                EXCEPT !.selectedCategory = cat,
                       !.intervals = (@ \ {dash.selectedCategory}) \cup {cat}]
  /\ UNCHANGED <<activeTab, viewState, interval, runs, fetchState, derived, now,
                 appState, order, app0>>

\* A tick of a refresh interval: the fetchData it was armed with.
dash_RefreshTick(cat) ==
  /\ cat \in dash.intervals
  /\ dash.n < MaxFetches
  /\ dash' = dash_fetchData(dash, cat)
  /\ UNCHANGED <<activeTab, viewState, interval, runs, fetchState, derived, now,
                 appState, order, app0>>

\* The Retry button of the error state.
dash_Retry ==
  /\ dash.mounted /\ dash.n < MaxFetches
  /\ ~dash.loading /\ dash.error # NULL
  /\ dash' = dash_fetchData(dash, dash.selectedCategory)
  /\ UNCHANGED <<activeTab, viewState, interval, runs, fetchState, derived, now,
                 appState, order, app0>>

\* Promise.all([signals, stats]) fulfils: the items request of the closure's
\* category is issued.
dash_HeadOk(f) ==
  /\ f \in dash.fetching /\ f.stage = "head"
  /\ dash' = [dash EXCEPT !.fetching = (@ \ {f}) \cup {[f EXCEPT !.stage = "items"]}]
  /\ UNCHANGED <<activeTab, viewState, interval, runs, fetchState, derived, now,
                 appState, order, app0>>

\* The items request is answered 2xx: setItems(data.items || []), finally.
dash_ItemsOk(f) ==
  /\ f \in dash.fetching /\ f.stage = "items"
  /\ dash' = [dash EXCEPT !.fetching = @ \ {f},
                          !.items = <<[id |-> f.id, category |-> f.category]>>,
                          !.loading = FALSE]
  /\ UNCHANGED <<activeTab, viewState, interval, runs, fetchState, derived, now,
                 appState, order, app0>>

\* The items request is answered non-2xx: finally.
dash_ItemsNotOk(f) ==
  /\ f \in dash.fetching /\ f.stage = "items"
  /\ dash' = [dash EXCEPT !.fetching = @ \ {f}, !.loading = FALSE]
  /\ UNCHANGED <<activeTab, viewState, interval, runs, fetchState, derived, now,
                 appState, order, app0>>

\* A request of the refresh rejects: catch, finally.
dash_FetchReject(f) ==
  /\ f \in dash.fetching
  /\ dash' = [dash EXCEPT !.fetching = @ \ {f}, !.loading = FALSE,
                          !.error = "Failed to fetch research data"]
  /\ UNCHANGED <<activeTab, viewState, interval, runs, fetchState, derived, now,
                 appState, order, app0>>

\* Where runCollection can be pressed.  The header button is disabled while
\* isCollecting; the buttons of part_000's empty states are not.
dash_CanRun ==
  \/ dash_ControlsShown /\ ~dash.isCollecting
  \/ dash.variant = "part_000" /\ ~dash.loading /\ dash.error = NULL /\ dash.items = <<>>

\* runCollection: setIsCollecting(true), POST /collect issued.
dash_runCollection ==
  /\ dash.mounted
  /\ dash_CanRun
  /\ dash.nRuns < MaxRuns
  /\ dash' = [dash EXCEPT !.isCollecting = TRUE, !.nRuns = @ + 1,
                          !.posts = Append(@, dash.selectedCategory)]
  /\ UNCHANGED <<activeTab, viewState, interval, runs, fetchState, derived, now,
                 appState, order, app0>>

\* What `finally` does: part_000 calls setIsCollecting(false), App.js arms
\* setTimeout(() => setIsCollecting(false), 3000).
dash_finally(d) ==
  IF d.variant = "part_000" THEN [d EXCEPT !.isCollecting = FALSE]
  ELSE [d EXCEPT !.resetTimers = @ + 1]

\* dash_PostNotOk with the refetch armed whatever the status.
dash_PostNotOk_Refetches(p) ==
  /\ p \in 1..Len(dash.posts)
  /\ dash' = dash_finally([dash EXCEPT !.posts = RemoveAt(@, p), !.posted = "notok",
                                       !.refetchTimers = Append(@, dash.posts[p])])
  /\ UNCHANGED <<activeTab, viewState, interval, runs, fetchState, derived, now,
                 appState, order, app0>>

\* POST /collect answered 2xx: setTimeout(fetchData, 2000 | 3000); finally.
dash_PostOk(p) ==
  /\ p \in 1..Len(dash.posts)
  /\ dash' = dash_finally([dash EXCEPT !.posts = RemoveAt(@, p), !.posted = "ok",
                                       !.refetchTimers = Append(@, dash.posts[p])])
  /\ UNCHANGED <<activeTab, viewState, interval, runs, fetchState, derived, now,
                 appState, order, app0>>

\* POST /collect answered non-2xx: finally.
dash_PostNotOk(p) ==
  /\ p \in 1..Len(dash.posts)
  /\ dash' = dash_finally([dash EXCEPT !.posts = RemoveAt(@, p), !.posted = "notok"])
  /\ UNCHANGED <<activeTab, viewState, interval, runs, fetchState, derived, now,
                 appState, order, app0>>

\* POST /collect rejected: catch (logged), finally.
dash_PostReject(p) ==
  /\ p \in 1..Len(dash.posts)
  /\ dash' = dash_finally([dash EXCEPT !.posts = RemoveAt(@, p), !.posted = "rejected"])
  /\ UNCHANGED <<activeTab, viewState, interval, runs, fetchState, derived, now,
                 appState, order, app0>>

\* The delayed refetch fires: the fetchData of the render that ran
\* runCollection.
dash_RefetchTimer(t) ==
  /\ t \in 1..Len(dash.refetchTimers)
  /\ dash.n < MaxFetches
  /\ dash' = [dash_fetchData(dash, dash.refetchTimers[t])
                EXCEPT !.refetchTimers = RemoveAt(@, t)]
  /\ UNCHANGED <<activeTab, viewState, interval, runs, fetchState, derived, now,
                 appState, order, app0>>

\* The delayed setIsCollecting(false) of App.js fires.
dash_ResetTimer ==
  /\ dash.resetTimers > 0
  /\ dash' = [dash EXCEPT !.resetTimers = @ - 1, !.isCollecting = FALSE]
  /\ UNCHANGED <<activeTab, viewState, interval, runs, fetchState, derived, now,
                 appState, order, app0>>

\* ------------------------------------------------------------ card badges
\* A value that may be undefined, or a number that may be NaN, is a sequence
\* of no or one integer.  item.timestamp is a date string: it holds the
\* instant (ms) the string denotes, or none if the string denotes no date.
Undefined == <<>>
NaN == <<>>
Num(n) == <<n>>
IsNaN(x) == x = NaN

\* item.upvotes, item.comments
Counter(item, field) == IF Has(item, field) THEN Num(item[field]) ELSE Undefined
\* x || 0
OrZero(x) == IF x = Undefined \/ x = Num(0) THEN 0 ELSE x[1]

\* new Date(timestamp) as a number: NaN for an Invalid Date.
DateOf(item) == IF Has(item, "timestamp") THEN item.timestamp ELSE NaN

\* Math.floor(x / d)
FloorDiv(x, d) == IF IsNaN(x) THEN NaN ELSE Num(x[1] \div d)
\* x < n
LessThan(x, n) == ~IsNaN(x) /\ x[1] < n

\* Math.floor((new Date() - new Date(timestamp)) / 60000)
diffMins(then, clock) ==
  FloorDiv(IF IsNaN(then) THEN NaN ELSE Num(clock - then[1]), MS_PER_MIN)

\* getHeatLevel without the factor 2 on comments.
getHeatLevel_Unweighted(upvotes, comments) ==
  LET score == OrZero(upvotes) + OrZero(comments)
  IN  IF score > HEAT_4 THEN 4
      ELSE IF score > HEAT_3 THEN 3
      ELSE IF score > HEAT_2 THEN 2
      ELSE 1

getHeatLevel(upvotes, comments) ==
  LET score == OrZero(upvotes) + OrZero(comments) * 2
  IN  IF score > HEAT_4 THEN 4
      ELSE IF score > HEAT_3 THEN 3
      ELSE IF score > HEAT_2 THEN 2
      ELSE 1

\* isRecent with the 60th minute counted as recent.
isRecent_Inclusive(then, clock) ==
  LET d == diffMins(then, clock) IN ~IsNaN(d) /\ d[1] <= RECENT_MINS

isRecent(then, clock) == LessThan(diffMins(then, clock), RECENT_MINS)

\* The text of a template literal `${x}suffix`: the number printed (NaN for
\* none) and the characters behind it.
Text(x, suffix) == [number |-> x, suffix |-> suffix]

\* IntelligenceCommandCenter.formatTimeAgo
formatTimeAgo(then, clock) ==
  LET mins == diffMins(then, clock)
      diffHours == FloorDiv(mins, MINS_PER_HOUR)
  IN  IF LessThan(mins, MINS_PER_HOUR) THEN Text(mins, "m")
      ELSE IF LessThan(diffHours, HOURS_PER_DAY) THEN Text(diffHours, "h")
      ELSE Text(FloorDiv(diffHours, HOURS_PER_DAY), "d")

\* ResearchDashboard.formatTimeAgo
ResearchDashboard_formatTimeAgo(then, clock) ==
  LET mins == diffMins(then, clock)
      diffHours == FloorDiv(mins, MINS_PER_HOUR)
      diffDays == FloorDiv(diffHours, HOURS_PER_DAY)
  IN  IF LessThan(mins, MINS_PER_HOUR) THEN Text(mins, "m ago")
      ELSE IF LessThan(diffHours, HOURS_PER_DAY) THEN Text(diffHours, "h ago")
      ELSE Text(diffDays, "d ago")

\* The badges of an item card of the IntelligenceCommandCenter.
Card(item, clock) ==
  [heatLevel |-> getHeatLevel(Counter(item, "upvotes"), Counter(item, "comments")),
   itemIsRecent |-> isRecent(DateOf(item), clock),
   timeAgo |-> formatTimeAgo(DateOf(item), clock)]

\* The age shown on an item row of the ResearchDashboard.
DashboardCard(item, clock) ==
  [timeAgo |-> ResearchDashboard_formatTimeAgo(DateOf(item), clock)]

\* Render with the sort done on the held list itself instead of on a copy.
Render_SortsInPlace ==
  /\ categorizedItems' = categorizeItems(items)
  /\ items' = SortFrom(items, 1, <<>>)
  /\ priorityItems' = slice(items', PRIORITY_N)
  /\ cards' = [i \in 1..Len(items) |-> Card(items'[i], now)]
  /\ UNCHANGED <<activeTab, signals, stats, selectedCategory, isCollecting,
                 collectionProgress, loading, error, interval, runs, fetchState,
                 now, variants, appState>>

\* The render of the view: categorizedItems, priorityItems and the badges of
\* the cards are derived from the held items and the clock.
Render ==
  /\ categorizedItems' = categorizeItems(items)
  /\ priorityItems' = getPriorityItems(items)
  /\ cards' = [i \in 1..Len(items) |-> Card(items[i], now)]
  /\ UNCHANGED <<activeTab, viewState, interval, runs, fetchState, now, variants, appState>>

\* The render of the ResearchDashboard's item rows.
RenderDashboard ==
  /\ cards' = [i \in 1..Len(items) |-> DashboardCard(items[i], now)]
  /\ UNCHANGED <<activeTab, viewState, interval, runs, fetchState, now, variants, appState,
                 categorizedItems, priorityItems>>

\* A minute passes on the wall clock.
ClockAdvance ==
  /\ now < Now0 + MaxClockSteps * MS_PER_MIN
  /\ now' = now + MS_PER_MIN
  /\ UNCHANGED <<activeTab, viewState, interval, runs, fetchState, derived, appState, variants>>

\* ---------------------------------------------------------- specification
Init ==
  /\ activeTab = "dashboard"
  /\ signals = <<>> /\ items = <<>> /\ stats = NULL
  /\ selectedCategory = "all"
  /\ isCollecting = FALSE /\ collectionProgress = NULL
  /\ loading = TRUE /\ error = NULL
  /\ interval = NoInterval
  /\ runs = <<>>
  /\ nFetches = 0 /\ fetching = {}
  /\ fetchErrorLog = "none"
  /\ categorizedItems = EmptyBuckets
  /\ priorityItems = <<>>
  /\ cards = <<>>
  /\ now = Now0
  /\ app = ConnectedApp /\ session = ConnectedSession
  /\ order = NewOrder /\ app0 = NewApp0 /\ dash = NewDash

Next ==
  \/ NavigateToResearch
  \/ NavigateAway
  \/ RefreshTick
  \/ Retry
  \/ \E c \in CategoryInputs : SelectCategory(c)
  \/ \E f \in 1..MaxFetches : \E e \in RejectInputs : FetchReject(f, e)
  \/ \E f \in 1..MaxFetches : \E ok \in OkSets : FetchFulfil(f, ok)
  \/ runCollection
  \/ \E r \in 1..MaxRuns : PostOk(r)
  \/ \E r \in 1..MaxRuns : PostNotOk(r)
  \/ \E r \in 1..MaxRuns : PostReject(r)
  \/ \E r \in 1..MaxRuns : PollTick(r)
  \/ \E r \in 1..MaxRuns : StatusFail(r)
  \/ \E r \in 1..MaxRuns : \E s \in StatusValues : StatusOk(r, s)
  \/ \E r \in 1..MaxRuns : SafetyTimeout(r)
  \/ Tick

Spec == Init /\ [][Next]_vars

\* ------------------------------------------- the projections on item lists
\* The view after its first refresh, holding an item list the server sent:
\* item lists of up to MaxItems items whose source_type and source_name are
\* drawn from the values the matchers tell apart (or are missing).
TypeInputs == {"reddit", "news", "prediction_market", "social_media", "blog"}
NameInputs == {<<"r/", "wallstreetbets">>, <<"Reuters">>, <<"Polymarket">>,
               <<"@", "someuser">>, <<"RandomBlog">>, <<"Crypto ", "Fear & Greed">>}

Titled(i) == [title |-> i]
WithType(item, t) == [f \in DOMAIN item \cup {"source_type"} |->
                        IF f = "source_type" THEN t ELSE item[f]]
WithName(item, n) == [f \in DOMAIN item \cup {"source_name"} |->
                        IF f = "source_name" THEN n ELSE item[f]]

\* The items that can stand at position i of a list.
ItemInputs(i) ==
  LET typed == {Titled(i)} \cup {WithType(Titled(i), t) : t \in TypeInputs}
  IN  typed \cup {WithName(it, n) : it \in typed, n \in NameInputs}

RECURSIVE ListInputs(_)
ListInputs(n) ==
  IF n = 0 THEN {<<>>}
  ELSE LET shorter == ListInputs(n - 1)
       IN  shorter \cup {Append(l, it) : l \in {m \in shorter : Len(m) = n - 1},
                                         it \in ItemInputs(n)}

InitClassify ==
  /\ activeTab = "research"
  /\ signals = ResponseSignals /\ stats = ResponseStats
  /\ items \in ListInputs(MaxItems)
  /\ selectedCategory = "all"
  /\ isCollecting = FALSE /\ collectionProgress = NULL
  /\ loading = FALSE /\ error = NULL
  /\ interval = NewInterval
  /\ runs = <<>>
  /\ nFetches = 1 /\ fetching = {}
  /\ fetchErrorLog = "none"
  /\ categorizedItems = EmptyBuckets
  /\ priorityItems = <<>>
  /\ cards = <<>>
  /\ now = Now0
  /\ app = ConnectedApp /\ session = ConnectedSession
  /\ order = NewOrder /\ app0 = NewApp0 /\ dash = NewDash

NextClassify == Render

SpecClassify == InitClassify /\ [][NextClassify]_vars

\* ------------------------------------------------- the ranker's item lists
\* The view holding a list of up to MaxRanked items, more than the ranker
\* keeps, whose engagement_score is missing, 0 or positive.
ScoreInputs == {0, 10}

WithScore(item, sc) == [f \in DOMAIN item \cup {"engagement_score"} |->
                          IF f = "engagement_score" THEN sc ELSE item[f]]

ScoredInputs(i) == {Titled(i)} \cup {WithScore(Titled(i), sc) : sc \in ScoreInputs}

RECURSIVE ScoredLists(_)
ScoredLists(n) ==
  IF n = 0 THEN {<<>>}
  ELSE LET shorter == ScoredLists(n - 1)
       IN  shorter \cup {Append(l, it) : l \in {m \in shorter : Len(m) = n - 1},
                                         it \in ScoredInputs(n)}

InitRank ==
  /\ activeTab = "research"
  /\ signals = ResponseSignals /\ stats = ResponseStats
  /\ items \in ScoredLists(MaxRanked)
  /\ selectedCategory = "all"
  /\ isCollecting = FALSE /\ collectionProgress = NULL
  /\ loading = FALSE /\ error = NULL
  /\ interval = NewInterval
  /\ runs = <<>>
  /\ nFetches = 1 /\ fetching = {}
  /\ fetchErrorLog = "none"
  /\ categorizedItems = EmptyBuckets
  /\ priorityItems = <<>>
  /\ cards = <<>>
  /\ now = Now0
  /\ app = ConnectedApp /\ session = ConnectedSession
  /\ order = NewOrder /\ app0 = NewApp0 /\ dash = NewDash

NextRank == Render

SpecRank == InitRank /\ [][NextRank]_vars

\* ------------------------------------------------------ the cards' items
\* The view holding one item the server sent, with counters around the heat
\* thresholds or with a timestamp around the age thresholds: the ages are
\* those the item has when the page is opened.
UpvoteInputs == {0, 1, 2500, 2501, 50000}
CommentInputs == {0, 1250, 10000, 25000}
AgeInputs == {0 - MS_PER_MIN, 0, 59999,
              58 * MS_PER_MIN, 59 * MS_PER_MIN, 60 * MS_PER_MIN - 1, 60 * MS_PER_MIN,
              24 * 60 * MS_PER_MIN - 1, 24 * 60 * MS_PER_MIN,
              48 * 60 * MS_PER_MIN - 1, 48 * 60 * MS_PER_MIN}
TimestampInputs == {Num(Now0 - age) : age \in AgeInputs} \cup {NaN}

WithField(item, field, v) == [f \in DOMAIN item \cup {field} |->
                               IF f = field THEN v ELSE item[f]]

CardInputs ==
  LET base == Titled(1)
      voted == {base} \cup {WithField(base, "upvotes", u) : u \in UpvoteInputs}
      counted == voted \cup {WithField(it, "comments", c) : it \in voted, c \in CommentInputs}
      dated == {WithField(base, "timestamp", t) : t \in TimestampInputs}
  IN  counted \cup dated

InitBadges ==
  /\ activeTab = "research"
  /\ signals = ResponseSignals /\ stats = ResponseStats
  /\ items \in {<<it>> : it \in CardInputs}
  /\ selectedCategory = "all"
  /\ isCollecting = FALSE /\ collectionProgress = NULL
  /\ loading = FALSE /\ error = NULL
  /\ interval = NewInterval
  /\ runs = <<>>
  /\ nFetches = 1 /\ fetching = {}
  /\ fetchErrorLog = "none"
  /\ categorizedItems = EmptyBuckets
  /\ priorityItems = <<>>
  /\ cards = <<>>
  /\ now = Now0
  /\ app = ConnectedApp /\ session = ConnectedSession
  /\ order = NewOrder /\ app0 = NewApp0 /\ dash = NewDash

NextBadges == Render \/ RenderDashboard \/ ClockAdvance

SpecBadges == InitBadges /\ [][NextBadges]_vars

\* ------------------------------------------------------- the poller alone
\* The research view is mounted and its first refresh has been answered: the
\* feed is shown, the refresh interval is armed, no collection has been run.
InitPoller ==
  /\ activeTab = "research"
  /\ signals = ResponseSignals /\ stats = ResponseStats
  /\ items = allItems(1, Endpoints)
  /\ selectedCategory = "all"
  /\ isCollecting = FALSE /\ collectionProgress = NULL
  /\ loading = FALSE /\ error = NULL
  /\ interval = NewInterval
  /\ runs = <<>>
  /\ nFetches = 1 /\ fetching = {}
  /\ fetchErrorLog = "none"
  /\ categorizedItems = EmptyBuckets
  /\ priorityItems = <<>>
  /\ cards = <<>>
  /\ now = Now0
  /\ app = ConnectedApp /\ session = ConnectedSession
  /\ order = NewOrder /\ app0 = NewApp0 /\ dash = NewDash

\* Collection runs one after the other on the mounted view, every refresh
\* answered 2xx.
NextPoller ==
  \/ runCollection
  \/ \E r \in 1..MaxRuns : PostOk(r) \/ PostNotOk(r) \/ PostReject(r)
  \/ \E r \in 1..MaxRuns : PollTick(r)
  \/ \E r \in 1..MaxRuns : \E s \in StatusValues : StatusOk(r, s)
  \/ \E r \in 1..MaxRuns : StatusFail(r)
  \/ \E r \in 1..MaxRuns : SafetyTimeout(r)
  \/ RefreshTick
  \/ \E f \in 1..MaxFetches : FetchFulfil(f, Endpoints)
  \/ Tick

SpecPoller == InitPoller /\ [][NextPoller]_vars

\* ------------------------------------------------------------ App specs
\* The page is opened: App is loading and its first health check is in
\* flight; the research view is not mounted.
InitSession ==
  /\ activeTab = "dashboard"
  /\ signals = <<>> /\ items = <<>> /\ stats = NULL
  /\ selectedCategory = "all"
  /\ isCollecting = FALSE /\ collectionProgress = NULL
  /\ loading = TRUE /\ error = NULL
  /\ interval = NoInterval
  /\ runs = <<>>
  /\ nFetches = 0 /\ fetching = {}
  /\ fetchErrorLog = "none"
  /\ categorizedItems = EmptyBuckets
  /\ priorityItems = <<>>
  /\ cards = <<>>
  /\ now = Now0
  /\ app = NewApp /\ session = NewSession
  /\ order = NewOrder /\ app0 = NewApp0 /\ dash = NewDash

\* The health check and the heartbeat, next to the research view's refresh.
NextSession ==
  \/ checkHealth
  \/ \E b \in BOOLEAN : HealthOk(b)
  \/ HealthFail
  \/ HeartbeatTick
  \/ \E b \in BOOLEAN : BotStatusOk(b)
  \/ BotStatusFail
  \/ (TabsShown /\ NavigateToResearch)
  \/ NavigateAway
  \/ RefreshTick
  \/ \E f \in 1..MaxFetches : \E ok \in OkSets : FetchFulfil(f, ok)
  \/ Tick

SpecSession == InitSession /\ [][NextSession]_vars

\* The strategies panel and the bot, with the heartbeat running.
NextBot ==
  \/ OpenTrading
  \/ CloseTrading
  \/ \E id \in SliderInputs : \E v \in ValueInputs : MoveSlider(id, v)
  \/ handleStartBot
  \/ handleStopBot
  \/ BotPostOk
  \/ BotPostFail
  \/ HeartbeatTick
  \/ \E b \in BOOLEAN : BotStatusOk(b)
  \/ BotStatusFail

SpecBot == Init /\ [][NextBot]_vars

\* The order form of either variant, App connected.
InitOrder ==
  /\ activeTab = "dashboard"
  /\ signals = <<>> /\ items = <<>> /\ stats = NULL
  /\ selectedCategory = "all"
  /\ isCollecting = FALSE /\ collectionProgress = NULL
  /\ loading = TRUE /\ error = NULL
  /\ interval = NoInterval
  /\ runs = <<>>
  /\ nFetches = 0 /\ fetching = {}
  /\ fetchErrorLog = "none"
  /\ categorizedItems = EmptyBuckets
  /\ priorityItems = <<>>
  /\ cards = <<>>
  /\ now = Now0
  /\ app = ConnectedApp /\ session = ConnectedSession
  /\ order \in {[NewOrder EXCEPT !.variant = v] : v \in OrderVariants}
  /\ app0 = NewApp0 /\ dash = NewDash

NextOrder ==
  \/ \E field \in DOMAIN NewOrderForm : \E value \in FieldInputs(field) :
        SetOrderField(field, value)
  \/ \E side \in SideInputs : handlePlaceOrder(side)
  \/ part_000_handlePlaceOrder
  \/ OrderPostOk
  \/ OrderPostFail

SpecOrder == InitOrder /\ [][NextOrder]_vars

\* The bot panel of part_000's App with its heartbeat.
NextApp0 ==
  \/ part_000_fetchAllData
  \/ \E running \in BOOLEAN : \E strategy \in ReportedStrategies :
        part_000_fetchBotStatus(running, strategy)
  \/ part_000_fetchTrades
  \/ \E req \in {"statusReqs", "tradesReqs"} : part_000_FetchFail(req)
  \/ \E newStrategy \in StrategyInputs : part_000_handleChangeStrategy(newStrategy)
  \/ part_000_ConfigOk
  \/ part_000_ConfigFail

SpecApp0 == Init /\ [][NextApp0]_vars

\* The category-filtered research view of either variant, just mounted.
InitDash ==
  /\ activeTab = "dashboard"
  /\ signals = <<>> /\ items = <<>> /\ stats = NULL
  /\ selectedCategory = "all"
  /\ isCollecting = FALSE /\ collectionProgress = NULL
  /\ loading = TRUE /\ error = NULL
  /\ interval = NoInterval
  /\ runs = <<>>
  /\ nFetches = 0 /\ fetching = {}
  /\ fetchErrorLog = "none"
  /\ categorizedItems = EmptyBuckets
  /\ priorityItems = <<>>
  /\ cards = <<>>
  /\ now = Now0
  /\ app = ConnectedApp /\ session = ConnectedSession
  /\ order = NewOrder /\ app0 = NewApp0
  /\ dash \in {MountedDash(v) : v \in DashVariants}

NextDash ==
  \/ \E cat \in CategoryInputs : dash_SelectCategory(cat)
  \/ \E cat \in CategoryInputs : dash_RefreshTick(cat)
  \/ dash_Retry
  \/ \E f \in dash.fetching : dash_HeadOk(f)
  \/ \E f \in dash.fetching : dash_ItemsOk(f)
  \/ \E f \in dash.fetching : dash_ItemsNotOk(f)
  \/ \E f \in dash.fetching : dash_FetchReject(f)
  \/ dash_runCollection
  \/ \E p \in 1..MaxRuns : dash_PostOk(p)
  \/ \E p \in 1..MaxRuns : dash_PostNotOk(p)
  \/ \E p \in 1..MaxRuns : dash_PostReject(p)
  \/ \E t \in 1..MaxRuns : dash_RefetchTimer(t)
  \/ dash_ResetTimer

SpecDash == InitDash /\ [][NextDash]_vars

\* Requests settle and armed timers fire.
dash_PostSettles ==
  \E p \in 1..MaxRuns : dash_PostOk(p) \/ dash_PostNotOk(p) \/ dash_PostReject(p)

SpecDashLive ==
  SpecDash /\ WF_vars(dash_PostSettles) /\ WF_vars(dash_ResetTimer)

\* App's health check and heartbeat next to the category-filtered research
\* view, which is on the page only while App shows its tabs.
NextIntervals ==
  \/ checkHealth
  \/ \E b \in BOOLEAN : HealthOk(b)
  \/ HealthFail
  \/ HeartbeatTick
  \/ \E b \in BOOLEAN : BotStatusOk(b)
  \/ BotStatusFail
  \/ \E v \in DashVariants : dash_Mount(v)
  \/ dash_Unmount
  \/ \E cat \in CategoryInputs : TabsShown /\ dash_SelectCategory(cat)
  \/ \E cat \in CategoryInputs : TabsShown /\ dash_RefreshTick(cat)
  \/ \E f \in dash.fetching : TabsShown /\ dash_HeadOk(f)
  \/ \E f \in dash.fetching : TabsShown /\ dash_ItemsOk(f)

SpecIntervals == InitSession /\ [][NextIntervals]_vars

\* ================================================================= claims
Runs == 1..Len(runs)
\* The /collect/status body that completes a run: running false, result present.
CompletionBody == "stopped_result"
\* The other bodies: the run is still reported running, or no result is there.
ProgressBodies == StatusValues \ {CompletionBody}
CategoryRequests == {ItemEndpoints[k] : k \in 1..Len(ItemEndpoints)}

\* C1: a run whose POST /collect failed (rejected or non-2xx) leaves the
\* poller idle: isCollecting is false again, and no poll interval, status
\* request or safety timeout exists for that attempt.
C1_FailedPostReturnsToIdle ==
  \A r \in Runs :
    (runs[r].post \in {"notok", "rejected"} /\ runs[r].live /\ r = Len(runs)) =>
      /\ ~isCollecting
      /\ ~runs[r].poll /\ runs[r].inflight = 0 /\ runs[r].tmo = "none"

\* C2: the safety timeout fires exactly TIMEOUT_MS after the collection was
\* accepted and is never overdue; when it fires the poll interval is cleared
\* and isCollecting and collectionProgress are reset; a run whose timeout has
\* fired issues no further status request.
C2_TimeoutEndsPolling ==
  /\ [](\A r \in Runs : runs[r].tmo = "armed" => runs[r].age * MS_PER_MIN <= TIMEOUT_MS)
  /\ [][/\ \A r \in Runs : SafetyTimeout(r) =>
              /\ runs[r].age * MS_PER_MIN = TIMEOUT_MS
              /\ ~runs'[r].poll
              /\ runs[r].live => (~isCollecting' /\ collectionProgress' = NULL)
        /\ \A r \in Runs : runs[r].tmo = "fired" =>
              /\ runs'[r].tmo = "fired"
              /\ ~runs'[r].poll
              /\ runs'[r].inflight <= runs[r].inflight]_vars

\* C2 witness: a run of the mounted view has timed out and the poller is idle.
C2_Witness ==
  \E r \in Runs : /\ runs[r].tmo = "fired" /\ runs[r].live /\ ~runs[r].poll
                  /\ ~isCollecting /\ collectionProgress = NULL

\* C3: a 2xx status response with running false and a result completes the
\* run: the poll interval is cleared, isCollecting and collectionProgress are
\* reset and fetchData is started; once the interval of an accepted run is
\* cleared it stays cleared and the run issues no further status request.
C3_CompletionEndsPolling ==
  [][/\ \A r \in Runs : StatusOk(r, CompletionBody) =>
          /\ ~runs'[r].poll
          /\ nFetches' = nFetches + 1
          /\ runs[r].live =>
               /\ ~isCollecting' /\ collectionProgress' = NULL
               /\ loading' /\ (nFetches + 1) \in fetching'
     /\ \A r \in Runs : (runs[r].post = "ok" /\ ~runs[r].poll) =>
          (~runs'[r].poll /\ runs'[r].inflight <= runs[r].inflight)]_vars

\* C3 witness: a run of the mounted view has completed before its timeout,
\* the poller is idle and the refresh it started is in flight.
C3_Witness ==
  \E r \in Runs : /\ runs[r].post = "ok" /\ ~runs[r].poll /\ runs[r].tmo = "armed"
                  /\ runs[r].live /\ ~isCollecting /\ collectionProgress = NULL
                  /\ loading /\ fetching # {}

\* C4: every triggered run returns to idle.  Timers fire and requests
\* settle, so a run returns to idle exactly if, whenever isCollecting is
\* true, an event that resets it is still to come: the answer to the POST,
\* or the safety timeout.
C4_EveryRunReturnsToIdle ==
  isCollecting =>
    \E r \in Runs : runs[r].live /\ (runs[r].post = "inflight" \/ runs[r].tmo = "armed")

\* C5: a status request that rejects or answers non-2xx changes nothing but
\* the request being over: isCollecting and collectionProgress keep their
\* values, the poll interval and the safety timeout stay as they are.
C5_StatusFailureIsTolerated ==
  [][\A r \in Runs : StatusFail(r) =>
       /\ isCollecting' = isCollecting
       /\ collectionProgress' = collectionProgress
       /\ runs'[r].poll = runs[r].poll
       /\ runs'[r].tmo = runs[r].tmo /\ runs'[r].age = runs[r].age
       /\ UNCHANGED <<signals, items, stats, loading, error, fetchState>>]_vars

\* C5 witness: while the view polls and shows a snapshot, a status request
\* is in flight.
C5_Witness ==
  \E r \in Runs : /\ runs[r].poll /\ runs[r].inflight > 0 /\ runs[r].live
                  /\ isCollecting /\ collectionProgress \in StatusValues

\* C6: a 2xx status response that is not a completion only replaces
\* collectionProgress; a poll interval is cleared only by a completion
\* response or by the safety timeout.
C6_OnlyCompletionOrTimeoutEndsPolling ==
  [][/\ \A r \in Runs : \A s \in ProgressBodies : StatusOk(r, s) =>
          /\ runs'[r].poll = runs[r].poll
          /\ runs'[r].tmo = runs[r].tmo
          /\ isCollecting' = isCollecting
          /\ runs[r].live => collectionProgress' = s
          /\ UNCHANGED <<signals, items, stats, loading, error, fetchState>>
     /\ \A r \in Runs : (runs[r].poll /\ ~runs'[r].poll) =>
          (StatusOk(r, CompletionBody) \/ SafetyTimeout(r))]_vars

\* C6 witness: the view still polls while it shows a snapshot with running
\* false and no result.
C6_Witness ==
  \E r \in Runs : /\ runs[r].poll /\ runs[r].live /\ runs[r].tmo = "armed"
                  /\ isCollecting /\ collectionProgress = "stopped"

\* C7: once the research view is unmounted none of its timers fires: not the
\* refresh interval, not the poll interval, not the safety timeout.
C7_NoTimerFiresAfterUnmount ==
  [][/\ ~Mounted => ~RefreshTick
     /\ \A r \in Runs : ~runs[r].live => (~PollTick(r) /\ ~SafetyTimeout(r))]_vars

\* C8: a refresh in which a category request rejects does not end in the
\* error state.
C8_CategoryRejectionIsIsolated ==
  ~(Mounted /\ error # NULL /\ fetchErrorLog \in CategoryRequests)

\* C9: items is replaced only when a refresh has all its responses, and then
\* by the results of all its ok category requests at once: one item list per
\* ok category, in the order markets, reddit, news, social, all of that
\* refresh.
FromCategory(item, e) == Has(item, "source_type") /\ item.source_type = QueryType(e)
C9_ItemsReplacedAtOnce ==
  [][/\ \A f \in fetching \ fetching' : \A ok \in OkSets : FetchFulfil(f, ok) =>
          /\ Len(items') = Cardinality(ok \cap CategoryRequests)
          /\ \A i \in 1..Len(items') : items'[i].id = f
          /\ \A e \in CategoryRequests :
               e \in ok <=> \E i \in 1..Len(items') : FromCategory(items'[i], e)
     /\ items' # items =>
          \/ NavigateAway
          \/ \E f \in 1..MaxFetches : \E ok \in OkSets : FetchFulfil(f, ok)]_vars

\* C9 witness: the view holds the results of a refresh in which three of the
\* four category requests were answered 2xx.
C9_Witness ==
  /\ Mounted /\ ~loading /\ Len(items) = 3
  /\ \A i \in 1..Len(items) : ~FromCategory(items[i], "news")

\* C10: categorizeItems puts every item of the list into exactly one of the
\* four buckets: the bucket lengths sum to the number of items, every item is
\* found in exactly one bucket, and that bucket is the one the item gets when
\* it is classified again on its own.
InBucket(categorized, b, item) ==
  \E j \in 1..Len(categorized[b]) : categorized[b][j] = item
IsPartition(list, categorized) ==
  /\ DOMAIN categorized = BucketNames
  /\ Len(categorized.reddit) + Len(categorized.news)
       + Len(categorized.markets) + Len(categorized.social) = Len(list)
  /\ \A i \in 1..Len(list) :
       Cardinality({b \in BucketNames : InBucket(categorized, b, list[i])}) = 1
  /\ \A i \in 1..Len(list) : \A b \in BucketNames :
       InBucket(categorized, b, list[i]) <=> InBucket(categorizeItems(<<list[i]>>), b, list[i])
C10_ClassificationIsTotal ==
  [][Render => IsPartition(items, categorizedItems')]_vars

\* C10 witness: a rendered list of two items, one in markets and one that no
\* matcher accepts in reddit.
C10_Witness ==
  /\ Len(items) = 2
  /\ Len(categorizedItems.markets) = 1 /\ Len(categorizedItems.reddit) = 1
  /\ ~matchReddit(categorizedItems.reddit[1])

\* The predicate of bucket b, and the priority order of the buckets.
Matches(b, item) ==
  CASE b = "markets" -> matchMarkets(item)
    [] b = "social"  -> matchSocial(item)
    [] b = "news"    -> matchNews(item)
    [] b = "reddit"  -> matchReddit(item)
MatchOrder == <<"markets", "social", "news", "reddit">>
MatchCount(item) == Cardinality({b \in BucketNames : Matches(b, item)})

\* C11: the predicates are applied in the order markets, social, news,
\* reddit and the first match wins: an item that satisfies a predicate is
\* put in the bucket of the earliest predicate of that order it satisfies,
\* and in no other bucket.
C11_FirstMatchWins ==
  [][Render =>
       \A i \in 1..Len(items) : \A k \in 1..Len(MatchOrder) :
         (/\ Matches(MatchOrder[k], items[i])
          /\ \A j \in 1..(k - 1) : ~Matches(MatchOrder[j], items[i])) =>
           \A b \in BucketNames :
             InBucket(categorizedItems', b, items[i]) <=> b = MatchOrder[k]]_vars

\* C11 witness: a rendered item with source_type prediction_market and a
\* source_name that starts with r/ stands in markets.
C11_Witness ==
  \E j \in 1..Len(categorizedItems.markets) :
    /\ TypeIs(categorizedItems.markets[j], "prediction_market")
    /\ NameStartsWith(categorizedItems.markets[j], "r/")
    /\ MatchCount(categorizedItems.markets[j]) = 2

\* C12: an item no predicate accepts is put in reddit, also when its
\* source_type or its source_name or both are missing; a missing field
\* counts as no match, so every such list is classified.
C12_UnmatchedGoesToReddit ==
  [][Render =>
       \A i \in 1..Len(items) :
         MatchCount(items[i]) = 0 =>
           \A b \in BucketNames :
             InBucket(categorizedItems', b, items[i]) <=> b = "reddit"]_vars

\* C12 witness: a rendered list with an item that has neither source_type
\* nor source_name, and an item without source_type named RandomBlog, both
\* in reddit.
C12_Witness ==
  /\ \E j \in 1..Len(categorizedItems.reddit) :
       /\ ~Has(categorizedItems.reddit[j], "source_type")
       /\ ~Has(categorizedItems.reddit[j], "source_name")
  /\ \E j \in 1..Len(categorizedItems.reddit) :
       /\ ~Has(categorizedItems.reddit[j], "source_type")
       /\ NameIncludes(categorizedItems.reddit[j], "RandomBlog")

\* The engagement score the ranking goes by: a missing score is 0.
EngagementOf(item) == IF "engagement_score" \in DOMAIN item THEN item.engagement_score ELSE 0
\* The position of an item in a list (items of a held list differ in title).
PosIn(list, item) == CHOOSE i \in 1..Len(list) : list[i] = item
Listed(list, item) == \E i \in 1..Len(list) : list[i] = item

\* C13: getPriorityItems returns min(PRIORITY_N, Len(items)) items, each an
\* item of the list and no item twice, in order of non-increasing engagement
\* score (missing = 0), and no item left out has a strictly higher score than
\* an item of the result.
C13_TopByEngagement ==
  [][Render =>
       /\ Len(priorityItems') = (IF Len(items) < PRIORITY_N THEN Len(items) ELSE PRIORITY_N)
       /\ \A j \in 1..Len(priorityItems') : Listed(items, priorityItems'[j])
       /\ \A j, k \in 1..Len(priorityItems') : j # k => priorityItems'[j] # priorityItems'[k]
       /\ \A j, k \in 1..Len(priorityItems') :
            j < k => EngagementOf(priorityItems'[j]) >= EngagementOf(priorityItems'[k])
       /\ \A i \in 1..Len(items) : \A j \in 1..Len(priorityItems') :
            ~Listed(priorityItems', items[i]) =>
              EngagementOf(items[i]) <= EngagementOf(priorityItems'[j])]_vars

\* C13 witness: a ranked list of more than PRIORITY_N items whose highest
\* score stands last in the list and first in the result, with an item
\* without score in the result.
C13_Witness ==
  /\ Len(items) > PRIORITY_N /\ Len(priorityItems) = PRIORITY_N
  /\ priorityItems[1] = items[Len(items)]
  /\ EngagementOf(priorityItems[1]) > EngagementOf(priorityItems[2])
  /\ \E j \in 1..Len(priorityItems) : ~Has(priorityItems[j], "engagement_score")

\* C14: the ranking is stable: two items of the result with equal score
\* stand in the order they have in the list, and of two items with equal
\* score of which only one is in the result, the one in the result stands
\* first in the list.
C14_RankingIsStable ==
  [][Render =>
       /\ \A j, k \in 1..Len(priorityItems') :
            (j < k /\ EngagementOf(priorityItems'[j]) = EngagementOf(priorityItems'[k])) =>
              PosIn(items, priorityItems'[j]) < PosIn(items, priorityItems'[k])
       /\ \A i \in 1..Len(items) : \A j \in 1..Len(priorityItems') :
            (/\ ~Listed(priorityItems', items[i])
             /\ EngagementOf(items[i]) = EngagementOf(priorityItems'[j])) =>
              PosIn(items, priorityItems'[j]) < i]_vars

\* C14 witness: a list [A, B, C, ...] as in the example, A and B with equal
\* score (A's score 0, B's missing), C and the six items behind it with a
\* higher score: the result holds the seven that score higher and then A,
\* and B is cut.
C14_Witness ==
  /\ Len(items) = 9 /\ Len(priorityItems) = PRIORITY_N
  /\ Has(items[1], "engagement_score") /\ items[1].engagement_score = 0
  /\ ~Has(items[2], "engagement_score")
  /\ \A i \in 3..9 : EngagementOf(items[i]) = 10
  /\ priorityItems[1] = items[3]
  /\ priorityItems[PRIORITY_N] = items[1]
  /\ ~Listed(priorityItems, items[2])

\* The counters of an item as the claim reads them: an absent counter is 0.
CountOf(item, field) == IF field \in DOMAIN item THEN item[field] ELSE 0
HeatScore(item) == CountOf(item, "upvotes") + 2 * CountOf(item, "comments")

\* C16: the heat level of a card is 1 for score <= 5000, 2 for
\* 5000 < score <= 20000, 3 for 20000 < score <= 50000 and 4 for
\* score > 50000, where score = upvotes + 2 * comments and an absent
\* counter counts as 0.
C16_HeatLevels ==
  [][Render =>
       \A i \in 1..Len(items) :
         LET score == HeatScore(items[i])
             level == cards'[i].heatLevel
         IN  /\ score <= 5000 => level = 1
             /\ (5000 < score /\ score <= 20000) => level = 2
             /\ (20000 < score /\ score <= 50000) => level = 3
             /\ score > 50000 => level = 4]_vars

\* C16 witness: the card of an item with 2500 upvotes and 1250 comments
\* (score 5000) shows level 1.
C16_Witness ==
  /\ Len(cards) = 1 /\ "heatLevel" \in DOMAIN cards[1]
  /\ CountOf(items[1], "upvotes") = 2500 /\ CountOf(items[1], "comments") = 1250
  /\ cards[1].heatLevel = 1

\* The age in ms of a dated item at a given time.
HasDate(item) == "timestamp" \in DOMAIN item /\ item.timestamp # <<>>
AgeAt(item, clock) == clock - item.timestamp[1]

\* C17: at every render, with the clock as it is then, an item is recent
\* exactly if its timestamp is less than 60 minutes (3 600 000 ms) old.
C17_RecentUnderAnHour ==
  [][Render =>
       \A i \in 1..Len(items) :
         cards'[i].itemIsRecent <=>
           (HasDate(items[i]) /\ AgeAt(items[i], now) < 60 * 60000)]_vars

\* C17 witness: an item that was 59 minutes old when the page was opened is
\* still held a minute later and its card, rendered then, is not recent.
C17_Witness ==
  /\ Len(cards) = 1 /\ "itemIsRecent" \in DOMAIN cards[1]
  /\ HasDate(items[1]) /\ AgeAt(items[1], Now0) = 59 * 60000
  /\ now = Now0 + 60000
  /\ ~cards[1].itemIsRecent

\* The age text the claim describes: the age floored to whole minutes under
\* 60 minutes, else to whole hours under 24 hours, else to whole days.
FlooredAge(ms) ==
  IF ms < 60 * 60000 THEN [number |-> <<ms \div 60000>>, suffix |-> "m"]
  ELSE IF ms < 24 * 60 * 60000 THEN [number |-> <<ms \div (60 * 60000)>>, suffix |-> "h"]
  ELSE [number |-> <<ms \div (24 * 60 * 60000)>>, suffix |-> "d"]

\* C18: the age shown for an item, by either formatTimeAgo, is always one
\* integer followed by its unit suffix m, h or d: the age floored to that
\* unit.
C18_AgeIsIntegerAndUnit ==
  [][(Render \/ RenderDashboard) =>
       \A i \in 1..Len(items) :
         /\ Len(cards'[i].timeAgo.number) = 1
         /\ cards'[i].timeAgo.suffix \in {"m", "h", "d"}
         /\ HasDate(items[i]) => cards'[i].timeAgo = FlooredAge(AgeAt(items[i], now))]_vars

\* C15: a render leaves the held item list as it is, elements and order,
\* and what it derived is what categorizeItems and getPriorityItems give
\* when they are run again on the list the render left behind.
C15_ProjectionsArePure ==
  [][Render =>
       /\ items' = items
       /\ categorizedItems' = categorizeItems(items')
       /\ priorityItems' = getPriorityItems(items')]_vars

\* C15 witness: a rendered list that the ranker had to reorder and to cut,
\* still held in its order, with all of it in one bucket in that order.
C15_Witness ==
  /\ Len(items) > PRIORITY_N /\ Len(priorityItems) = PRIORITY_N
  /\ priorityItems[1] # items[1]
  /\ categorizedItems.reddit = items
\* C19: whenever the allocations sum to more than 100 on the strategies
\* panel, Start Bot (the same button as Stop Bot) cannot be pressed, and a
\* slider can be moved so that the sum comes back to 100 or less.
CanLowerSum ==
  \E id \in StrategyIds : \E v \in 0..app.strategyAllocations[id] :
     /\ ENABLED MoveSlider(id, v)
     /\ AllocationSum([app.strategyAllocations EXCEPT ![id] = v]) <= ALLOCATION_LIMIT
C19_OverAllocationBlocksActionsOnly ==
  (StrategyPanelShown /\ AllocationSum(app.strategyAllocations) > ALLOCATION_LIMIT)
     => /\ ~ENABLED handleStartBot
        /\ ~ENABLED handleStopBot
        /\ CanLowerSum

\* The research view's own loops: mount, unmount, refresh, answers, time.
ResearchStep ==
  \/ NavigateToResearch
  \/ NavigateAway
  \/ RefreshTick
  \/ Tick
  \/ \E f \in 1..MaxFetches : \E ok \in OkSets : FetchFulfil(f, ok)

\* C20: fetchAllData is called only with connected true; the heartbeat
\* interval is armed exactly while connected is true; the step that turns
\* connected true calls fetchAllData at once and arms the interval, whose
\* ticks call it again; the research view's loops leave the heartbeat as it
\* is, and a heartbeat tick leaves the research view as it is.
C20_HeartbeatFollowsConnectivity ==
  [][/\ session.heartbeat = app.connected
     /\ session'.heartbeat = app'.connected
     /\ session'.beats > session.beats => app'.connected
     /\ (~app.connected /\ app'.connected) =>
           /\ session'.beats = session.beats + 1
           /\ session'.botStatusReqs = session.botStatusReqs + 1
     /\ (app.connected /\ CanFetchAll) => ENABLED HeartbeatTick
     /\ HeartbeatTick =>
           /\ session'.beats = session.beats + 1
           /\ UNCHANGED <<viewState, interval, runs, fetchState>>
     /\ ResearchStep => UNCHANGED appState]_vars

\* Connectivity was established after a failed health check, the heartbeat
\* has fetched at once and on a tick, and the research view has been
\* refreshed by its own interval meanwhile.
C20_Witness ==
  /\ app.connected /\ app.error # NULL
  /\ session.heartbeat /\ session.beats >= 2
  /\ Mounted /\ interval.armed /\ nFetches >= 2

\* C22: in every state where botStatus.running is true no slider can be
\* moved, and no step taken from such a state changes strategyAllocations.
C22_AllocationsFrozenWhileRunning ==
  [][app.botStatus.running =>
        /\ app'.strategyAllocations = app.strategyAllocations
        /\ \A id \in StrategyIds : \A v \in 0..100 : ~ENABLED MoveSlider(id, v)]_vars

\* The bot is reported running while the strategies panel is shown with
\* allocations the user has changed.
C22_Witness ==
  /\ StrategyPanelShown
  /\ app.botStatus.running
  /\ app.strategyAllocations # DefaultAllocations

Completed(r) == runs[r].post = "ok" /\ ~runs[r].poll /\ runs[r].tmo = "armed"
PollArmed == {r \in Runs : runs[r].poll /\ runs[r].live}

\* C24: whenever a poll interval of the mounted view is armed, isCollecting
\* is true (so that Run Scan is disabled and Initialize Scan is not shown),
\* and at most one poll interval is armed.
C24_AtMostOneRunInFlight ==
  /\ PollArmed # {} => isCollecting
  /\ Cardinality(PollArmed) <= 1

\* C25: the safety timeout of a run that has completed has no effect: it
\* starts no refresh and leaves isCollecting and collectionProgress as they
\* are.
C25_RunEndsOnce ==
  [][\A r \in Runs : (Completed(r) /\ SafetyTimeout(r)) =>
        /\ nFetches' = nFetches
        /\ isCollecting' = isCollecting
        /\ collectionProgress' = collectionProgress]_vars

\* C26: whenever isCollecting is false, collectionProgress is null.
C26_IdleMeansNoSnapshot ==
  Mounted => (~isCollecting => collectionProgress = NULL)

\* A form with which no order may be sent: symbol or quantity empty, or a
\* limit order without a limit price.
Incomplete(form) ==
  \/ form.symbol = "" \/ form.qty = ""
  \/ (form.orderType = "limit" /\ form.limitPrice = "")
PlaceOrder == part_000_handlePlaceOrder \/ \E side \in SideInputs : handlePlaceOrder(side)

\* C23: placing an order with an incomplete form sends no request and
\* leaves the form (but for the side the pressed button stands for) and the
\* held orders and positions as they are; every request sent to the limit
\* endpoint carries a limit price.
C23_IncompleteOrderIsNotSent ==
  [][/\ (PlaceOrder /\ Incomplete(order.form)) =>
          /\ order'.sent = order.sent
          /\ order'.pending = order.pending
          /\ order'.refetches = order.refetches
          /\ [order'.form EXCEPT !.side = order.form.side] = order.form
     /\ \A i \in 1..Len(order'.sent) :
          order'.sent[i].endpoint = "/orders/limit" => order'.sent[i].limit_price # NaN]_vars

\* C30: a trades response leaves the running flag and the strategy of
\* botStatus as they are; the displayed running flag is that of the last 2xx
\* /api/bot/status response; handleChangeStrategy sends no request while
\* that response says the bot runs.
ReportedRunning == app0.reported # <<>> /\ app0.reported[1].running
C30_BotStatusFollowsBackend ==
  /\ [](app0.reported # <<>> => app0.botStatus.running = app0.reported[1].running)
  /\ [][/\ part_000_fetchTrades =>
              /\ app0'.botStatus.running = app0.botStatus.running
              /\ app0'.botStatus.strategy = app0.botStatus.strategy
        /\ \A s \in StrategyInputs :
              (part_000_handleChangeStrategy(s) /\ ReportedRunning) =>
                 app0'.configPost = "none"]_vars

\* C27: once every request of the category-filtered view has settled, the
\* items held are those of the fetchData started last; a response of an
\* older fetchData never replaces the items of a newer one; and the items
\* held, when they are those of the fetchData started last, are those of the
\* selected category.
DashSettled == dash.fetching = {} /\ dash.refetchTimers = <<>>

C27_LatestRefreshWins ==
  /\ [](DashSettled /\ dash.items # <<>> /\ dash.items[1].id = dash.n =>
          dash.items[1].category = dash.selectedCategory)
  /\ [][\A f \in dash.fetching :
          (dash_ItemsOk(f) /\ dash.items # <<>> /\ dash.items[1].id > f.id) =>
             dash'.items = dash.items]_vars

\* C21: in the simple variants of runCollection no interval is armed by a
\* run; isCollecting is true only while a POST /collect is unanswered or the
\* delayed reset is pending, and it returns to false whatever the outcome of
\* the POST; a delayed refetch is armed by a 2xx response and by no other.
C21_SimpleRunAlwaysEnds ==
  /\ [](dash.isCollecting => (dash.posts # <<>> \/ dash.resetTimers > 0))
  /\ (dash.isCollecting ~> ~dash.isCollecting)
  /\ [][\A p \in 1..MaxRuns :
          /\ dash_PostOk(p) =>
                /\ Len(dash'.refetchTimers) = Len(dash.refetchTimers) + 1
                /\ dash'.intervals = dash.intervals
          /\ (dash_PostNotOk(p) \/ dash_PostReject(p)) =>
                /\ dash'.refetchTimers = dash.refetchTimers
                /\ dash'.intervals = dash.intervals
                /\ dash'.fetching = dash.fetching]_vars

\* A run whose POST was not answered 2xx has ended: isCollecting is false
\* again and no refetch is armed or in flight.
C21_Witness ==
  /\ dash.nRuns > 0 /\ dash.posted \in {"notok", "rejected"}
  /\ ~dash.isCollecting /\ dash.posts = <<>>
  /\ dash.refetchTimers = <<>> /\ dash.fetching = {}

\* C28: at most one refresh interval of the research view and at most one
\* heartbeat interval are armed at any time; a category change leaves
\* exactly the interval of the new fetchData, and the heartbeat is armed
\* exactly while connected is true.
C28_AtMostOneIntervalEach ==
  /\ [](/\ Cardinality(dash.intervals) <= 1
        /\ session.intervals <= 1
        /\ session.intervals = (IF app.connected THEN 1 ELSE 0)
        /\ dash.mounted => dash.intervals = {dash.selectedCategory})
  /\ [][\A cat \in CategoryInputs :
          dash_SelectCategory(cat) => dash'.intervals = {cat}]_vars

\* Connectivity was lost and found again, and a category was chosen in the
\* research view: one interval each.
C28_Witness ==
  /\ app.connected /\ session.intervals = 1 /\ session.health = 0
  /\ app.error = BrokerUnavailable
  /\ dash.mounted /\ dash.selectedCategory # "all"
  /\ Cardinality(dash.intervals) = 1

====
